---- MODULE Spec2Model ----
(***************************************************************************)
(* QRLens: the content script's selection / capture / decode / result      *)
(* session machine and the four-pass decode cascade.                       *)
(*                                                                         *)
(* Every run of the content script creates one closure ("session") with    *)
(* its own overlay, selection rectangle, banner, drag state and handlers.  *)
(* The page's window.__qrlens_active flag and the document are shared by   *)
(* all of them.                                                            *)
(***************************************************************************)
EXTENDS Integers, Sequences, FiniteSets, TLC

(* ------------------------------ bounds -------------------------------- *)

\* content-script runs that get past the double-injection guard
MaxSessions == 2

\* largest pointer coordinate of the selection-controller specification
MaxCoord == 11

\* clicks on a result menu's copy button
MaxCopies == 2

\* characters after the scheme in the payloads of the result menu specification
MaxBody == 2

\* largest offset of a cropped rectangle, and largest excess over the smallest size
MaxCrop == 3

\* the most pixels of an ImageData handed to toBW, and the most pixels on a
\* side of a crop canvas
MaxSide == 2

\* the most calls of toBW on the same ImageData
MaxRuns == 2

(* ------------------------- program constants -------------------------- *)

\* "if (rect.w < 10 || rect.h < 10)"
MinSize == 10

Sessions == 1..MaxSessions

Passes == 1..4

\* the value of an unassigned "let" (startX, startY) and of an unset style
Undef == -1

NoStyle == [left |-> Undef, top |-> Undef, width |-> Undef, height |-> Undef]

NoRect == [x |-> Undef, y |-> Undef, w |-> Undef, h |-> Undef]

(* ------------------------------ payloads ------------------------------ *)

\* decoded strings, as sequences of characters
P_Verbatim == <<"H", "T", "T", "P", "S", ":", "/", "/", "e", ".", "c", "o", "/", "x">>

P_Domain == <<"e", ".", "c", "o">>

P_Text == <<"H", "i", " ", "u">>

P_Script == <<"j", "a", "v", "a", "s", "c", "r", "i", "p", "t", ":", "a", "(", "1", ")">>

Payloads == {P_Verbatim, P_Domain, P_Text, P_Script}

\* jsQR's return value: null, or an object whose .data is a string
Null == <<"null">>

Empty == <<>>

Outcomes == {Null, Empty} \cup Payloads

(* ------------------------------- state -------------------------------- *)

VARIABLES
    jsQRdefined, \* typeof jsQR === "function" in this page
    active,     \* window.__qrlens_active
    nsess,      \* closures created so far
    pc,         \* per closure: where its script / processSelection stands
    dragging,   \* per closure: let dragging
    startX,     \* per closure: let startX
    startY,     \* per closure: let startY
    style,      \* per closure: selection.style left/top/width/height
    rect,       \* per closure: the rect handed to processSelection
    decoded,    \* per closure: the payload handed to showResultMenu
    openBtn,    \* per closure: its result menu has the "Open Link" button
    doc,        \* elements attached to document.body, <<kind, closure>>
    listeners,  \* document's keydown listeners, in registration order
    sent,       \* per closure: {type: "capture"} messages sent
    opened,     \* urls of the {type: "openTab"} messages sent
    cleanups,   \* per closure: calls of cleanup()
    pointer,    \* the pointer event the overlay listeners got last
    dIn,        \* decode cascade: what jsQR yields for each pass's candidate
    dOut,       \* decode cascade: attemptDecode's return value and jsQR calls
    copy,       \* per closure: copyBtn's label, pending clipboard writes and timers
    unhandled,  \* promise rejections and exceptions nothing caught
    worker,     \* the service worker: the click and the message it is handling
    cIn,        \* crop: the rect and window.devicePixelRatio
    cOut,       \* crop: the canvas size and the source offset
    bw,         \* toBW: the bytes of an ImageData before and after, and the calls made
    raster      \* attemptDecode's pixel buffers: the crop canvas and what the passes left

vars == <<jsQRdefined, active, nsess, pc, dragging, startX, startY, style, rect, decoded,
          openBtn, doc, listeners, sent, opened, cleanups, pointer, dIn, dOut,
          copy, unhandled, worker, cIn, cOut, bw, raster>>

\* what the session, selection and cascade steps leave alone
restVars == <<copy, unhandled, worker, cIn, cOut, bw, raster>>

\* the pixel buffers, which only toBW and the passes of attemptDecode touch
pixVars == <<bw, raster>>

sessVars == <<jsQRdefined, active, nsess, pc, dragging, startX, startY, style, rect, decoded,
              openBtn, doc, listeners, sent, opened, cleanups, pointer>>

El(kind, s) == <<kind, s>>

Ev(type, s, x, y) == [type |-> type, s |-> s, x |-> x, y |-> y]

Range(q) == {q[i] : i \in 1..Len(q)}

Without(q, h) == SelectSeq(q, LAMBDA e : e # h)

Abs(n) == IF n < 0 THEN -n ELSE n

Min(a, b) == IF a < b THEN a ELSE b

(* ----------------------- URL classification --------------------------- *)

Lower(c) ==
    CASE c = "H" -> "h"
      [] c = "T" -> "t"
      [] c = "P" -> "p"
      [] c = "S" -> "s"
      [] OTHER -> c

LowerSeq(q) == [i \in 1..Len(q) |-> Lower(q[i])]

StartsWith(q, prefix) ==
    /\ Len(q) >= Len(prefix)
    /\ SubSeq(q, 1, Len(prefix)) = prefix

\* /^https?:\/\//i.test(decoded)
MatchesHttp(q) ==
    \/ StartsWith(LowerSeq(q), <<"h", "t", "t", "p", ":", "/", "/">>)
    \/ StartsWith(LowerSeq(q), <<"h", "t", "t", "p", "s", ":", "/", "/">>)

HttpsPrefix == <<"h", "t", "t", "p", "s", ":", "/", "/">>

Digits == {"0", "1", "2", "3", "4", "5", "6", "7", "8", "9"}

\* characters that end the authority of a special-scheme URL
AuthorityEnd == {"/", "\\", "?", "#"}

\* code points the URL parser refuses in a host
ForbiddenHost == {" ", "<", ">", "[", "]", "^", "|", "%", "@", ":"}

\* index of the first element of q at or after i that lies in S; Len(q)+1 if none
RECURSIVE FirstIn(_, _, _)
FirstIn(q, S, i) ==
    IF i > Len(q) THEN Len(q) + 1
    ELSE IF q[i] \in S THEN i
    ELSE FirstIn(q, S, i + 1)

\* index of the last element of q that lies in S; 0 if none
RECURSIVE LastIn(_, _, _)
LastIn(q, S, i) ==
    IF i < 1 THEN 0
    ELSE IF q[i] \in S THEN i
    ELSE LastIn(q, S, i - 1)

\* the slashes the parser skips after "https:"
RECURSIVE SkipSlashes(_)
SkipSlashes(q) ==
    IF q # <<>> /\ Head(q) \in {"/", "\\"} THEN SkipSlashes(Tail(q)) ELSE q

\* the parser drops the spaces that end its input
RECURSIVE TrimEnd(_)
TrimEnd(q) ==
    IF q # <<>> /\ q[Len(q)] = " " THEN TrimEnd(SubSeq(q, 1, Len(q) - 1)) ELSE q

\* the labels of a host, split at "."
RECURSIVE Labels(_)
Labels(h) ==
    LET dot == FirstIn(h, {"."}, 1)
    IN  IF dot > Len(h) THEN <<h>>
        ELSE <<SubSeq(h, 1, dot - 1)>> \o Labels(SubSeq(h, dot + 1, Len(h)))

IsNumber(l) == l # <<>> /\ \A i \in 1..Len(l) : l[i] \in Digits

\* a host whose last label is a number is read as an IPv4 address: at most
\* four labels, each a number (decimal numbers below 256 are meant)
HostOk(h) ==
    LET all   == Labels(h)
        parts == IF Len(all) > 1 /\ all[Len(all)] = <<>>
                 THEN SubSeq(all, 1, Len(all) - 1) ELSE all
    IN  IsNumber(parts[Len(parts)])
            => (Len(parts) <= 4 /\ \A i \in 1..Len(parts) : IsNumber(parts[i]))

\* try { new URL(string); return true; } catch { return false; }
\* for a string that begins with "https:": the authority must hold a host
\* without forbidden code points, and its port, if any, must be digits
isValidUrl(string) ==
    LET input     == TrimEnd(string)
        rest      == SkipSlashes(SubSeq(input, 7, Len(input)))
        authority == SubSeq(rest, 1, FirstIn(rest, AuthorityEnd, 1) - 1)
        at        == LastIn(authority, {"@"}, Len(authority))
        hostport  == SubSeq(authority, at + 1, Len(authority))
        colon     == LastIn(hostport, {":"}, Len(hostport))
        hostname  == IF colon = 0 THEN hostport ELSE SubSeq(hostport, 1, colon - 1)
        port      == IF colon = 0 THEN <<>> ELSE SubSeq(hostport, colon + 1, Len(hostport))
    IN  /\ hostname # <<>>
        /\ \A i \in 1..Len(hostname) : hostname[i] \notin ForbiddenHost
        /\ HostOk(hostname)
        /\ \A i \in 1..Len(port) : port[i] \in Digits

\* "isUrl" without the speculative "https://" prefix
isUrl_RegexOnly(p) == MatchesHttp(p)

\* showResultMenu's "isUrl"
isUrl(p) == MatchesHttp(p) \/ isValidUrl(HttpsPrefix \o p)

\* "url" left as decoded
urlOf_Verbatim(p) == p

\* showResultMenu's "url"
urlOf(p) == IF MatchesHttp(p) THEN p ELSE HttpsPrefix \o p

(* -------------------------- decode cascade ---------------------------- *)

\* attemptDecode has not run
NotRun == [ret |-> Null, calls |-> <<>>]

\* "result && result.data": a non-null result whose data is a non-empty string
Truthy(r) == r # Null /\ r # Empty

\* the cascade without its pass 3
attemptDecode_SkipBinarize(jsQR) ==
    IF Truthy(jsQR[1]) THEN [ret |-> jsQR[1], calls |-> <<1>>]
    ELSE IF Truthy(jsQR[2]) THEN [ret |-> jsQR[2], calls |-> <<1, 2>>]
    ELSE IF Truthy(jsQR[4]) THEN [ret |-> jsQR[4], calls |-> <<1, 2, 4>>]
    ELSE [ret |-> Null, calls |-> <<1, 2, 4>>]

\* the cascade testing "result" where the code tests "result && result.data"
attemptDecode_AnyResult(jsQR) ==
    IF jsQR[1] # Null THEN [ret |-> jsQR[1], calls |-> <<1>>]
    ELSE IF jsQR[2] # Null THEN [ret |-> jsQR[2], calls |-> <<1, 2>>]
    ELSE IF jsQR[3] # Null THEN [ret |-> jsQR[3], calls |-> <<1, 2, 3>>]
    ELSE IF jsQR[4] # Null THEN [ret |-> jsQR[4], calls |-> <<1, 2, 3, 4>>]
    ELSE [ret |-> Null, calls |-> <<1, 2, 3, 4>>]

\* attemptDecode: jsQR[i] is what the decoder yields for pass i's candidate.
\* ret is the return value, calls the passes the decoder was called for.
attemptDecode(jsQR) ==
    IF Truthy(jsQR[1]) THEN [ret |-> jsQR[1], calls |-> <<1>>]
    ELSE IF Truthy(jsQR[2]) THEN [ret |-> jsQR[2], calls |-> <<1, 2>>]
    ELSE IF Truthy(jsQR[3]) THEN [ret |-> jsQR[3], calls |-> <<1, 2, 3>>]
    ELSE IF Truthy(jsQR[4]) THEN [ret |-> jsQR[4], calls |-> <<1, 2, 3, 4>>]
    ELSE [ret |-> Null, calls |-> <<1, 2, 3, 4>>]

(* --------------- the page state the handlers share -------------------- *)

\* the shared mutable state a handler works on
Page == [doc |-> doc, listeners |-> listeners, active |-> active, cleanups |-> cleanups]

\* the elements cleanup() finds with querySelectorAll, whichever closure made them
Transient(d) == {e \in d : e[1] \in {"loader", "menu", "backdrop"}}

\* cleanup() of closure s
cleanup(s, g) ==
    [g EXCEPT !.doc = (@ \ {El("overlay", s), El("selection", s), El("banner", s)})
                          \ Transient(@),
              !.active = FALSE,
              !.cleanups[s] = @ + 1]

\* showToast() of closure s; its timer is the action ToastExpire
showToast(s, g) == [g EXCEPT !.doc = @ \cup {El("toast", s)}]

\* onKeyDown(e) of closure s with e.key === "Escape"
onKeyDown(s, g) ==
    LET g1 == cleanup(s, g)
    IN  [g1 EXCEPT !.listeners = Without(@, El("onKeyDown", s))]

\* dismissMenu() of closure s's result menu
dismissMenu(s, g) ==
    LET g1 == [g EXCEPT !.doc = @ \ {El("menu", s), El("backdrop", s)}]
        g2 == cleanup(s, g1)
    IN  [g2 EXCEPT !.listeners = Without(Without(@, El("onKeyDown", s)), El("escHandler", s))]

\* escHandler(e) of closure s with e.key === "Escape"
escHandler(s, g) == dismissMenu(s, g)

\* one keydown listener called with an Escape key event
Handle(h, g) == IF h[1] = "onKeyDown" THEN onKeyDown(h[2], g) ELSE escHandler(h[2], g)

\* the document dispatches a keydown event: the listeners registered when the
\* dispatch starts are called in registration order, except those removed
\* before their turn
RECURSIVE Dispatch(_, _)
Dispatch(hs, g) ==
    IF hs = <<>> THEN g
    ELSE IF Head(hs) \in Range(g.listeners)
         THEN Dispatch(Tail(hs), Handle(Head(hs), g))
         ELSE Dispatch(Tail(hs), g)

\* the tail without its cleanup() call
failTail_NoCleanup(s, g) ==
    LET g1 == showToast(s, g)
    IN  [g1 EXCEPT !.listeners = Without(@, El("onKeyDown", s))]

\* the tail of processSelection after a miss or a failure:
\* showToast(...); cleanup(); removeEventListener("keydown", onKeyDown)
failTail(s, g) ==
    LET g1 == showToast(s, g)
        g2 == cleanup(s, g1)
    IN  [g2 EXCEPT !.listeners = Without(@, El("onKeyDown", s))]

\* showResultMenu(decoded, rect): menu, backdrop and escHandler
showResultMenu(s, g) ==
    [g EXCEPT !.doc = @ \cup {El("menu", s), El("backdrop", s)},
              !.listeners = Append(@, El("escHandler", s))]

\* write a handler's result back
Commit(g) ==
    /\ doc' = g.doc
    /\ listeners' = g.listeners
    /\ active' = g.active
    /\ cleanups' = g.cleanups

(* ---------------------- state outside the session ---------------------- *)

\* the three chrome.action.onClicked listeners and the three
\* chrome.runtime.onMessage listeners the worker file registers, in file order
HostListeners == 1..3

\* tab.url is undefined
NoUrl == <<"undefined">>

\* the worker before any click or message; promise: captureVisibleTab called
\* without a callback returns a promise
HostIdle(promise) ==
    [promise |-> promise,
     url     |-> NoUrl,
     click   |-> [l \in HostListeners |-> "idle"],
     inject  |-> {},
     msg     |-> [l \in HostListeners |-> "idle"],
     req     |-> <<>>,
     failed  |-> {},
     resp    |-> <<>>]

\* copyBtn of a result menu: its label, the writeText promises not settled,
\* the label timers not fired, and the clicks it got
NoCopy == [label |-> "Copy", writes |-> 0, timers |-> 0, clicks |-> 0]

\* no crop has been asked for / made
NoCrop == [none |-> TRUE]

\* toBW has been handed no ImageData / attemptDecode no canvas
NoPixels == [none |-> TRUE]

PixInit == bw = NoPixels /\ raster = NoPixels

RestInit ==
    /\ copy = [s \in Sessions |-> NoCopy]
    /\ unhandled = {}
    /\ worker = HostIdle(TRUE)
    /\ cIn = NoCrop
    /\ cOut = NoCrop
    /\ PixInit

(* ------------------------------- Init --------------------------------- *)

Init ==
    /\ jsQRdefined \in BOOLEAN
    /\ active = FALSE
    /\ nsess = 0
    /\ pc = [s \in Sessions |-> "fresh"]
    /\ dragging = [s \in Sessions |-> FALSE]
    /\ startX = [s \in Sessions |-> Undef]
    /\ startY = [s \in Sessions |-> Undef]
    /\ style = [s \in Sessions |-> NoStyle]
    /\ rect = [s \in Sessions |-> NoRect]
    /\ decoded = [s \in Sessions |-> Null]
    /\ openBtn = [s \in Sessions |-> FALSE]
    /\ doc = {}
    /\ listeners = <<>>
    /\ sent = [s \in Sessions |-> 0]
    /\ opened = {}
    /\ cleanups = [s \in Sessions |-> 0]
    /\ pointer = Ev("none", 0, 0, 0)
    /\ dIn = [i \in Passes |-> Null]
    /\ dOut = NotRun
    /\ RestInit

(* ------------------------ content script run -------------------------- *)

\* the content script without "window.__qrlens_active = false" at line 32
runScript_KeepFlag ==
    /\ nsess < MaxSessions
    /\ LET s == nsess + 1
       IN  /\ nsess' = s
           /\ active' = TRUE
           /\ IF ~jsQRdefined
              THEN /\ doc' = doc \cup {El("toast", s)}
                   /\ pc' = [pc EXCEPT ![s] = "nolib"]
                   /\ UNCHANGED listeners
              ELSE /\ doc' = doc \cup {El("overlay", s), El("banner", s)}
                   /\ pc' = [pc EXCEPT ![s] = "selecting"]
                   /\ listeners' = Append(listeners, El("onKeyDown", s))
    /\ UNCHANGED <<jsQRdefined, dragging, startX, startY, style, rect, decoded, sent,
                   opened, cleanups, pointer, dIn, dOut, openBtn, restVars>>

\* the content script past its double-injection guard: a new closure s. Without
\* the decoder it shows a toast and clears the flag; otherwise it attaches the
\* overlay and the banner and registers onKeyDown.
runScript ==
    /\ nsess < MaxSessions
    /\ LET s == nsess + 1
       IN  /\ nsess' = s
           /\ IF ~jsQRdefined
              THEN /\ doc' = doc \cup {El("toast", s)}
                   /\ active' = FALSE
                   /\ pc' = [pc EXCEPT ![s] = "nolib"]
                   /\ UNCHANGED listeners
              ELSE /\ doc' = doc \cup {El("overlay", s), El("banner", s)}
                   /\ active' = TRUE
                   /\ pc' = [pc EXCEPT ![s] = "selecting"]
                   /\ listeners' = Append(listeners, El("onKeyDown", s))
    /\ UNCHANGED <<jsQRdefined, dragging, startX, startY, style, rect, decoded, sent,
                   opened, cleanups, pointer, dIn, dOut, openBtn, restVars>>

\* the content script without "if (window.__qrlens_active) return;"
Activate_NoGuard == runScript

\* the icon is clicked and the content script runs in the page
Activate ==
    IF active
    THEN \* if (window.__qrlens_active) return;
         UNCHANGED vars
    ELSE runScript

(* ------------------------ selection controller ------------------------ *)

\* updateSelectionRect without Math.min and Math.abs
updateSelectionRect_Signed(x1, y1, x2, y2) ==
    [left |-> x1, top |-> y1, width |-> x2 - x1, height |-> y2 - y1]

\* updateSelectionRect(x1, y1, x2, y2)
updateSelectionRect(x1, y1, x2, y2) ==
    [left |-> Min(x1, x2), top |-> Min(y1, y2),
     width |-> Abs(x2 - x1), height |-> Abs(y2 - y1)]

\* the rect the mouseup listener builds
finalRect(sx, sy, cx, cy) ==
    [x |-> Min(sx, cx), y |-> Min(sy, cy), w |-> Abs(cx - sx), h |-> Abs(cy - sy)]

\* the size check with "&&" for "||": only a rectangle small both ways is dropped
tooSmall_And(r) == r.w < MinSize /\ r.h < MinSize

\* "Ignore tiny accidental clicks": rect.w < 10 || rect.h < 10
tooSmall(r) == r.w < MinSize \/ r.h < MinSize

\* overlay "mousedown" listener of closure s
MouseDown(s, cx, cy) ==
    /\ El("overlay", s) \in doc
    /\ startX' = [startX EXCEPT ![s] = cx]
    /\ startY' = [startY EXCEPT ![s] = cy]
    /\ dragging' = [dragging EXCEPT ![s] = TRUE]
    /\ style' = [style EXCEPT ![s] = updateSelectionRect(cx, cy, cx, cy)]
    /\ doc' = doc \cup {El("selection", s)}
    /\ pointer' = Ev("mousedown", s, cx, cy)
    /\ UNCHANGED <<jsQRdefined, active, nsess, pc, rect, decoded, listeners, sent, opened,
                   cleanups, dIn, dOut, openBtn, restVars>>

\* overlay "mousemove" listener of closure s
MouseMove(s, cx, cy) ==
    /\ El("overlay", s) \in doc
    /\ pointer' = Ev("mousemove", s, cx, cy)
    /\ IF ~dragging[s]
       THEN UNCHANGED style
       ELSE style' = [style EXCEPT ![s] = updateSelectionRect(startX[s], startY[s], cx, cy)]
    /\ UNCHANGED <<jsQRdefined, active, nsess, pc, dragging, startX, startY, rect, decoded, doc,
                   listeners, sent, opened, cleanups, dIn, dOut, openBtn, restVars>>

\* the mouseup listener with a discard that ends the selection: the overlay
\* and the banner go with the selection rectangle
MouseUp_DiscardEnds(s, cx, cy) ==
    /\ El("overlay", s) \in doc
    /\ pointer' = Ev("mouseup", s, cx, cy)
    /\ IF ~dragging[s]
       THEN UNCHANGED <<dragging, doc, rect, pc>>
       ELSE /\ dragging' = [dragging EXCEPT ![s] = FALSE]
            /\ doc' = doc \ {El("selection", s), El("overlay", s), El("banner", s)}
            /\ LET r == finalRect(startX[s], startY[s], cx, cy)
               IN  IF tooSmall(r)
                   THEN UNCHANGED <<rect, pc>>
                   ELSE /\ rect' = [rect EXCEPT ![s] = r]
                        /\ pc' = [pc EXCEPT ![s] = "raf1"]
    /\ UNCHANGED <<jsQRdefined, active, nsess, startX, startY, style, decoded, listeners, sent,
                   opened, cleanups, dIn, dOut, openBtn, restVars>>

\* the mouseup listener with a processSelection that leaves the overlay attached
MouseUp_KeepOverlay(s, cx, cy) ==
    /\ El("overlay", s) \in doc
    /\ pointer' = Ev("mouseup", s, cx, cy)
    /\ IF ~dragging[s]
       THEN UNCHANGED <<dragging, doc, rect, pc>>
       ELSE /\ dragging' = [dragging EXCEPT ![s] = FALSE]
            /\ LET r == finalRect(startX[s], startY[s], cx, cy)
               IN  IF tooSmall(r)
                   THEN /\ doc' = doc \ {El("selection", s)}
                        /\ UNCHANGED <<rect, pc>>
                   ELSE /\ rect' = [rect EXCEPT ![s] = r]
                        /\ doc' = doc \ {El("selection", s), El("banner", s)}
                        /\ pc' = [pc EXCEPT ![s] = "raf1"]
    /\ UNCHANGED <<jsQRdefined, active, nsess, startX, startY, style, decoded, listeners, sent,
                   opened, cleanups, dIn, dOut, openBtn, restVars>>

\* overlay "mouseup" listener of closure s; a rectangle of at least 10 x 10
\* enters processSelection, which runs up to its first await
MouseUp(s, cx, cy) ==
    /\ El("overlay", s) \in doc
    /\ pointer' = Ev("mouseup", s, cx, cy)
    /\ IF ~dragging[s]
       THEN UNCHANGED <<dragging, doc, rect, pc>>
       ELSE /\ dragging' = [dragging EXCEPT ![s] = FALSE]
            /\ LET r == finalRect(startX[s], startY[s], cx, cy)
               IN  IF tooSmall(r)
                   THEN /\ doc' = doc \ {El("selection", s)}
                        /\ UNCHANGED <<rect, pc>>
                   ELSE /\ rect' = [rect EXCEPT ![s] = r]
                        /\ doc' = doc \ {El("selection", s), El("overlay", s), El("banner", s)}
                        /\ pc' = [pc EXCEPT ![s] = "raf1"]
    /\ UNCHANGED <<jsQRdefined, active, nsess, startX, startY, style, decoded, listeners, sent,
                   opened, cleanups, dIn, dOut, openBtn, restVars>>

(* -------------------------- processSelection -------------------------- *)

\* waitForRepaint whose second frame callback does not resolve the promise
rafStep_Stuck(p) == IF p = "raf1" THEN "raf2" ELSE p

\* waitForRepaint with a single requestAnimationFrame
rafStep_OneFrame(p) == IF p = "raf1" THEN "capture" ELSE p

\* waitForRepaint: one animation frame runs the callbacks of every closure
\* that waits for one. After the second frame processSelection resumes and
\* sends {type: "capture"}.
rafStep(p) == IF p = "raf1" THEN "raf2" ELSE IF p = "raf2" THEN "capture" ELSE p

AnimationFrame ==
    /\ \E s \in Sessions : pc[s] \in {"raf1", "raf2"}
    /\ pc' = [s \in Sessions |-> rafStep(pc[s])]
    /\ sent' = [s \in Sessions |->
                  IF pc[s] # "capture" /\ rafStep(pc[s]) = "capture"
                  THEN sent[s] + 1 ELSE sent[s]]
    /\ UNCHANGED <<jsQRdefined, active, nsess, dragging, startX, startY, style, rect, decoded,
                   doc, listeners, opened, cleanups, pointer, dIn, dOut, openBtn, restVars>>

\* what the sendMessage callback can find
Responses == {"dataUrl", "error", "lastError", "empty"}

\* the sendMessage callback of closure s runs and processSelection resumes:
\* with a dataUrl it shows the loader and starts loading the image, otherwise
\* the catch block and the tail run
CaptureResponse(s, res) ==
    /\ pc[s] = "capture"
    /\ IF res = "dataUrl"
       THEN /\ doc' = doc \cup {El("loader", s)}
            /\ pc' = [pc EXCEPT ![s] = "load"]
            /\ UNCHANGED <<listeners, active, cleanups>>
       ELSE /\ Commit(failTail(s, Page))
            /\ pc' = [pc EXCEPT ![s] = "returned"]
    /\ UNCHANGED <<jsQRdefined, nsess, dragging, startX, startY, style, rect, decoded, sent,
                   opened, pointer, dIn, dOut, openBtn, restVars>>

\* the image of closure s loads (ok) or fails to, and processSelection runs
\* to its end: crop, attemptDecode with a decoder that behaves as jsQR,
\* loader.remove(), then the result menu or the toast and the tail
ImageSettled(s, ok, jsQR) ==
    /\ pc[s] = "load"
    /\ pc' = [pc EXCEPT ![s] = "returned"]
    /\ LET g0  == [Page EXCEPT !.doc = @ \ {El("loader", s)}]
           ret == attemptDecode(jsQR).ret
       IN  IF ok /\ ret # Null
           THEN /\ Commit(showResultMenu(s, g0))
                /\ decoded' = [decoded EXCEPT ![s] = ret]
                /\ openBtn' = [openBtn EXCEPT ![s] = isUrl(ret)]
           ELSE /\ Commit(failTail(s, g0))
                /\ UNCHANGED <<decoded, openBtn>>
    /\ UNCHANGED <<jsQRdefined, nsess, dragging, startX, startY, style, rect, sent, opened,
                   pointer, dIn, dOut, restVars>>

(* ---------------------------- user and timers ------------------------- *)

\* the user presses Escape: a keydown event on the document
Escape ==
    /\ Commit(Dispatch(listeners, Page))
    /\ UNCHANGED <<jsQRdefined, nsess, pc, dragging, startX, startY, style, rect, decoded,
                   sent, opened, pointer, dIn, dOut, openBtn, restVars>>

\* a click on the backdrop of closure s's result menu
BackdropClick(s) ==
    /\ El("backdrop", s) \in doc
    /\ Commit(dismissMenu(s, Page))
    /\ UNCHANGED <<jsQRdefined, nsess, pc, dragging, startX, startY, style, rect, decoded,
                   sent, opened, pointer, dIn, dOut, openBtn, restVars>>

\* a click on "Open Link" of closure s's result menu
OpenClick(s) ==
    /\ El("menu", s) \in doc
    /\ openBtn[s]
    /\ opened' = opened \cup {urlOf(decoded[s])}
    /\ Commit(dismissMenu(s, Page))
    /\ UNCHANGED <<jsQRdefined, nsess, pc, dragging, startX, startY, style, rect, decoded,
                   sent, pointer, dIn, dOut, openBtn, restVars>>

\* setTimeout(() => toast.remove(), duration) of closure s's toast
ToastExpire(s) ==
    /\ El("toast", s) \in doc
    /\ doc' = doc \ {El("toast", s)}
    /\ UNCHANGED <<jsQRdefined, active, nsess, pc, dragging, startX, startY, style, rect,
                   decoded, listeners, sent, opened, cleanups, pointer, dIn, dOut, openBtn, restVars>>

(* ------------------------------ copy button --------------------------- *)

\* a copy click that also dismisses the menu, as the open click does
CopyClick_Dismiss(s) ==
    /\ El("menu", s) \in doc
    /\ copy[s].clicks < MaxCopies
    /\ copy' = [copy EXCEPT ![s].clicks = @ + 1, ![s].writes = @ + 1]
    /\ Commit(dismissMenu(s, Page))
    /\ UNCHANGED <<jsQRdefined, nsess, pc, dragging, startX, startY, style, rect, decoded,
                   openBtn, sent, opened, pointer, dIn, dOut, unhandled, worker, cIn, cOut, pixVars>>

\* a click on "Copy" of closure s's result menu: e.stopPropagation() and
\* navigator.clipboard.writeText(decoded), whose promise is pending
CopyClick(s) ==
    /\ El("menu", s) \in doc
    /\ copy[s].clicks < MaxCopies
    /\ copy' = [copy EXCEPT ![s].clicks = @ + 1, ![s].writes = @ + 1]
    /\ UNCHANGED <<sessVars, dIn, dOut, unhandled, worker, cIn, cOut, pixVars>>

\* a writeText promise of closure s settles: fulfilled, its "then" handler
\* sets the label and starts the 1500 ms timer; rejected, no handler takes the
\* rejection
ClipboardSettled(s, ok) ==
    /\ copy[s].writes > 0
    /\ IF ok
       THEN /\ copy' = [copy EXCEPT ![s].writes = @ - 1, ![s].label = "Copied",
                                    ![s].timers = @ + 1]
            /\ UNCHANGED unhandled
       ELSE /\ copy' = [copy EXCEPT ![s].writes = @ - 1]
            /\ unhandled' = unhandled \cup {<<s, "writeText">>}
    /\ UNCHANGED <<sessVars, dIn, dOut, worker, cIn, cOut, pixVars>>

\* a label timer of closure s fires
CopyTimer(s) ==
    /\ copy[s].timers > 0
    /\ copy' = [copy EXCEPT ![s].timers = @ - 1, ![s].label = "Copy"]
    /\ UNCHANGED <<sessVars, dIn, dOut, unhandled, worker, cIn, cOut, pixVars>>

(* --------------------------------- crop ------------------------------- *)

\* Math.round of the fraction n / d for n >= 0: the nearest integer, a half
\* going up
mathRound(n, d) == (2 * n + d) \div (2 * d)

\* window.devicePixelRatio || 1, the ratio held as a fraction n / d
dprOr1(dpr) == IF dpr.n = 0 THEN [n |-> 1, d |-> 1] ELSE dpr

\* the crop with its size taken from the rounded edges of the rectangle
crop_Edges(r, dpr) ==
    LET k  == dprOr1(dpr)
        sx == mathRound(r.x * k.n, k.d)
        sy == mathRound(r.y * k.n, k.d)
    IN  [width  |-> mathRound((r.x + r.w) * k.n, k.d) - sx,
         height |-> mathRound((r.y + r.h) * k.n, k.d) - sy,
         sx     |-> sx,
         sy     |-> sy]

\* step 6 of processSelection: canvas.width, canvas.height and the source
\* offset handed to drawImage
crop(r, dpr) ==
    LET k == dprOr1(dpr)
    IN  [width  |-> mathRound(r.w * k.n, k.d),
         height |-> mathRound(r.h * k.n, k.d),
         sx     |-> mathRound(r.x * k.n, k.d),
         sy     |-> mathRound(r.y * k.n, k.d)]

\* the crop of cIn is made
RunCrop ==
    /\ cOut = NoCrop
    /\ cOut' = crop(cIn.rect, cIn.dpr)
    /\ UNCHANGED <<sessVars, dIn, dOut, copy, unhandled, worker, cIn, pixVars>>

(* ----------------------------- pixel data ---------------------------- *)

\* ImageData.data is a sequence of bytes, four for each pixel (R, G, B, A),
\* the pixels row by row. The code's index i counts from 0, a sequence from 1.

\* the loop of toBW with ">=" for ">"
RECURSIVE toBWLoop_AtLeast(_, _)
toBWLoop_AtLeast(d, i) ==
    IF i >= Len(d) THEN d
    ELSE LET sum == d[i + 1] + d[i + 2] + d[i + 3]
             v   == IF sum >= 3 * 128 THEN 255 ELSE 0
         IN  toBWLoop_AtLeast([d EXCEPT ![i + 1] = v, ![i + 2] = v, ![i + 3] = v], i + 4)

toBW_AtLeast(d) == toBWLoop_AtLeast(d, 0)

\* for (let i = 0; i < d.length; i += 4) of toBW, from index i on:
\* avg = (d[i] + d[i + 1] + d[i + 2]) / 3, so avg > 128 is sum > 3 * 128
RECURSIVE toBWLoop(_, _)
toBWLoop(d, i) ==
    IF i >= Len(d) THEN d
    ELSE LET sum == d[i + 1] + d[i + 2] + d[i + 3]
             v   == IF sum > 3 * 128 THEN 255 ELSE 0
         IN  toBWLoop([d EXCEPT ![i + 1] = v, ![i + 2] = v, ![i + 3] = v], i + 4)

\* toBW(imageData): the bytes of imageData.data after the call, which
\* writes them in place and returns the same object
toBW(d) == toBWLoop(d, 0)

\* toBW is called on the ImageData of bw once more
RunBW ==
    /\ bw # NoPixels
    /\ bw.runs < MaxRuns
    /\ bw' = [bw EXCEPT !.data = toBW(@), !.runs = @ + 1]
    /\ UNCHANGED <<sessVars, dIn, dOut, copy, unhandled, worker, cIn, cOut, raster>>

\* A canvas is its size and the bytes of its pixels.

\* ctx.getImageData(0, 0, w, h): a new ImageData holding a copy of the bytes
getImageData(c) == c.data

\* upscaleCanvas(source, scale): a new canvas scale times as wide and as
\* high; drawImage with imageSmoothingEnabled = false gives the pixel (X, Y)
\* the bytes of the source pixel (X div scale, Y div scale)
upscaleCanvas(source, scale) ==
    LET W == source.width * scale
        H == source.height * scale
    IN  [width  |-> W,
         height |-> H,
         data   |-> [k \in 1..(4 * W * H) |->
                        LET p == (k - 1) \div 4
                            X == p % W
                            Y == p \div W
                        IN  source.data[4 * ((Y \div scale) * source.width + (X \div scale))
                                          + ((k - 1) % 4) + 1]]]

\* the arguments of a jsQR(data, width, height, ...) call
jsQRCall(data, w, h) == [data |-> data, width |-> w, height |-> h]

\* attemptDecode with a pass 3 that binarizes the ImageData of pass 1
attemptDecodePixels_SharedBuffer(canvas, jsQR) ==
    LET w == canvas.width
        h == canvas.height
        imageData == getImageData(canvas)
        o1 == [canvas |-> canvas, imageData |-> imageData,
               calls |-> <<jsQRCall(imageData, w, h)>>]
    IN  IF Truthy(jsQR[1]) THEN o1
        ELSE
        LET up2     == upscaleCanvas(o1.canvas, 2)
            up2Data == getImageData(up2)
            o2 == [o1 EXCEPT !.calls = Append(@, jsQRCall(up2Data, up2.width, up2.height))]
        IN  IF Truthy(jsQR[2]) THEN o2
            ELSE
            LET bwData == toBW(o2.imageData)
                o3 == [o2 EXCEPT !.imageData = bwData,
                                 !.calls = Append(@, jsQRCall(bwData, w, h))]
            IN  IF Truthy(jsQR[3]) THEN o3
                ELSE
                LET up3   == upscaleCanvas(o3.canvas, 3)
                    up3BW == toBW(getImageData(up3))
                IN  [o3 EXCEPT !.calls = Append(@, jsQRCall(up3BW, up3.width, up3.height))]

\* attemptDecode(canvas, ctx) with its pixel buffers, jsQR[i] being what the
\* decoder yields in pass i: the crop canvas and the ImageData of pass 1 as
\* the call leaves them, and the arguments of the jsQR calls made. The
\* ImageData of passes 3 and 4 are new objects, which toBW writes in place.
attemptDecodePixels(canvas, jsQR) ==
    LET w == canvas.width
        h == canvas.height
        imageData == getImageData(canvas)
        o1 == [canvas |-> canvas, imageData |-> imageData,
               calls |-> <<jsQRCall(imageData, w, h)>>]
    IN  IF Truthy(jsQR[1]) THEN o1
        ELSE
        LET up2     == upscaleCanvas(o1.canvas, 2)
            up2Data == getImageData(up2)
            o2 == [o1 EXCEPT !.calls = Append(@, jsQRCall(up2Data, up2.width, up2.height))]
        IN  IF Truthy(jsQR[2]) THEN o2
            ELSE
            LET bwData == toBW(getImageData(o2.canvas))
                o3 == [o2 EXCEPT !.calls = Append(@, jsQRCall(bwData, w, h))]
            IN  IF Truthy(jsQR[3]) THEN o3
                ELSE
                LET up3   == upscaleCanvas(o3.canvas, 3)
                    up3BW == toBW(getImageData(up3))
                IN  [o3 EXCEPT !.calls = Append(@, jsQRCall(up3BW, up3.width, up3.height))]

\* attemptDecode(canvas, ctx) runs on the crop canvas against the decoder dIn
RunPasses ==
    /\ raster # NoPixels
    /\ raster.out = NoPixels
    /\ raster' = [raster EXCEPT !.out = attemptDecodePixels(raster.source, dIn)]
    /\ dOut' = attemptDecode(dIn)
    /\ UNCHANGED <<sessVars, dIn, copy, unhandled, worker, cIn, cOut, bw>>

(* --------------------------- service worker --------------------------- *)

\* url.startsWith(...) prefixes of the onClicked listeners
S_Chrome == <<"c", "h", "r", "o", "m", "e", ":", "/", "/">>

S_Extension == <<"c", "h", "r", "o", "m", "e", "-", "e", "x", "t", "e", "n", "s", "i", "o", "n", ":", "/", "/">>

S_Edge == <<"e", "d", "g", "e", ":", "/", "/">>

S_About == <<"a", "b", "o", "u", "t", ":">>

\* tab.url of the tab whose icon is clicked
T_Web == <<"h", "t", "t", "p", "s", ":", "/", "/", "e", ".", "c", "o">>

T_Chrome == <<"c", "h", "r", "o", "m", "e", ":", "/", "/", "x">>

T_Extension == <<"c", "h", "r", "o", "m", "e", "-", "e", "x", "t", "e", "n", "s", "i", "o", "n", ":", "/", "/", "x">>

T_Edge == <<"e", "d", "g", "e", ":", "/", "/", "x">>

T_About == <<"a", "b", "o", "u", "t", ":", "b", "l", "a", "n", "k">>

T_File == <<"f", "i", "l", "e", ":", "/", "/", "/", "x">>

TabUrls == {NoUrl, T_Web, T_Chrome, T_Extension, T_Edge, T_About, T_File}

\* the files handed to chrome.scripting
F_Css == "styles.css"

F_Lib == "lib/jsQR.min.js"

F_Script == "content.js"

\* the guard of onClicked listener l: the first listener skips a tab without
\* url, chrome:// and chrome-extension://; the second and third read
\* tab.url || "" and skip chrome://, chrome-extension://, edge:// and about:
skips(l, url) ==
    IF l = 1
    THEN \/ url = NoUrl
         \/ StartsWith(url, S_Chrome)
         \/ StartsWith(url, S_Extension)
    ELSE LET u == IF url = NoUrl THEN <<>> ELSE url
         IN  \/ StartsWith(u, S_Chrome)
             \/ StartsWith(u, S_Extension)
             \/ StartsWith(u, S_Edge)
             \/ StartsWith(u, S_About)

\* onClicked listener l up to its first await: return, or insertCSS
onClicked(l, url, w) ==
    IF skips(l, url)
    THEN [w EXCEPT !.click[l] = "done"]
    ELSE [w EXCEPT !.click[l] = "css", !.inject = @ \cup {<<l, F_Css>>}]

\* onClicked listener l resumes after an await: a rejection goes to its catch
\* block; otherwise the first listener injects the decoder and the content
\* script in one executeScript call, the others in one call each
injectSettled(l, ok, w) ==
    IF ~ok THEN [w EXCEPT !.click[l] = "done"]
    ELSE IF w.click[l] = "css"
    THEN IF l = 1
         THEN [w EXCEPT !.click[l] = "script",
                        !.inject = @ \cup {<<l, F_Lib>>, <<l, F_Script>>}]
         ELSE [w EXCEPT !.click[l] = "lib", !.inject = @ \cup {<<l, F_Lib>>}]
    ELSE IF w.click[l] = "lib"
    THEN [w EXCEPT !.click[l] = "script", !.inject = @ \cup {<<l, F_Script>>}]
    ELSE [w EXCEPT !.click[l] = "done"]

\* the user clicks the extension icon on a tab: the three onClicked listeners
\* run to their first await, in file order
IconClick(url) ==
    /\ \A l \in HostListeners : worker.click[l] \in {"idle", "done"}
    /\ worker' = onClicked(3, url, onClicked(2, url, onClicked(1, url,
                     [worker EXCEPT !.url = url, !.inject = {}])))
    /\ UNCHANGED <<sessVars, dIn, dOut, copy, unhandled, cIn, cOut, pixVars>>

\* an insertCSS / executeScript promise of listener l settles
InjectSettled(l, ok) ==
    /\ worker.click[l] \in {"css", "lib", "script"}
    /\ worker' = injectSettled(l, ok, worker)
    /\ UNCHANGED <<sessVars, dIn, dOut, copy, unhandled, cIn, cOut, pixVars>>

\* onMessage listener l gets {type: "capture"} from a tab: the first and the
\* third call captureVisibleTab(sender.tab.windowId, ..., callback); the second
\* uses the promise, and where the call returns no promise its ".then" throws
\* and the catch block calls again with a callback
onCapture(l, w) ==
    IF l = 2 /\ w.promise
    THEN [w EXCEPT !.msg[l] = "scoped", !.req = Append(@, <<l, "scoped">>)]
    ELSE IF l = 2
    THEN [w EXCEPT !.msg[l] = "callback",
                   !.req = @ \o << <<l, "scoped">>, <<l, "scoped">> >>]
    ELSE [w EXCEPT !.msg[l] = "callback", !.req = Append(@, <<l, "scoped">>)]

\* the settling of a request with a fallback whose failure only logs
captureSettled_SilentFailure(l, ok, w) ==
    IF w.msg[l] = "callback"
    THEN [w EXCEPT !.msg[l]  = "done",
                   !.failed  = IF ok THEN @ ELSE @ \cup {<<l, "scoped">>},
                   !.resp    = Append(@, <<l, IF ok THEN "dataUrl" ELSE "error">>)]
    ELSE IF ok
    THEN [w EXCEPT !.msg[l] = "done", !.resp = Append(@, <<l, "dataUrl">>)]
    ELSE IF w.msg[l] = "scoped"
    THEN [w EXCEPT !.msg[l]  = "fallback",
                   !.failed  = @ \cup {<<l, "scoped">>},
                   !.req     = Append(@, <<l, "unscoped">>)]
    ELSE [w EXCEPT !.msg[l]  = "done",
                   !.failed  = @ \cup {<<l, "unscoped">>}]

\* a captureVisibleTab request of listener l succeeds (ok) or fails
captureSettled(l, ok, w) ==
    IF w.msg[l] = "callback"
    THEN [w EXCEPT !.msg[l]  = "done",
                   !.failed  = IF ok THEN @ ELSE @ \cup {<<l, "scoped">>},
                   !.resp    = Append(@, <<l, IF ok THEN "dataUrl" ELSE "error">>)]
    ELSE IF ok
    THEN [w EXCEPT !.msg[l] = "done", !.resp = Append(@, <<l, "dataUrl">>)]
    ELSE IF w.msg[l] = "scoped"
    THEN [w EXCEPT !.msg[l]  = "fallback",
                   !.failed  = @ \cup {<<l, "scoped">>},
                   !.req     = Append(@, <<l, "unscoped">>)]
    ELSE [w EXCEPT !.msg[l]  = "done",
                   !.failed  = @ \cup {<<l, "unscoped">>},
                   !.resp    = Append(@, <<l, "error">>)]

\* a {type: "capture"} message arrives: the three onMessage listeners run in
\* file order and each returns true
CaptureMessage ==
    /\ \A l \in HostListeners : worker.msg[l] \in {"idle", "done"}
    /\ worker' = onCapture(3, onCapture(2, onCapture(1,
                     [worker EXCEPT !.req = <<>>, !.failed = {}, !.resp = <<>>])))
    /\ UNCHANGED <<sessVars, dIn, dOut, copy, unhandled, cIn, cOut, pixVars>>

\* the pending captureVisibleTab request of listener l settles
CaptureSettled(l, ok) ==
    /\ worker.msg[l] \in {"callback", "scoped", "fallback"}
    /\ worker' = captureSettled(l, ok, worker)
    /\ UNCHANGED <<sessVars, dIn, dOut, copy, unhandled, cIn, cOut, pixVars>>

(* --------------------------- specifications --------------------------- *)

\* pointer positions of the session specification, on the diagonal: a
\* click, and a drag of exactly the smallest accepted size
LifePoints == {0, MinSize}

\* decoder behaviours of the session specification: nothing found, a code
\* only pass 4 reads, and a text that pass 2 reads after an empty pass 1
LifeDecoders ==
    { [i \in Passes |-> Null],
      [i \in Passes |-> IF i = 4 THEN P_Domain ELSE Null],
      [i \in Passes |-> IF i = 1 THEN Empty ELSE IF i = 2 THEN P_Text ELSE P_Verbatim] }

Next ==
    \/ Activate
    \/ \E s \in Sessions : MouseDown(s, 0, 0)
    \/ \E s \in Sessions, c \in LifePoints : MouseMove(s, c, c)
    \/ \E s \in Sessions, c \in LifePoints : MouseUp(s, c, c)
    \/ AnimationFrame
    \/ \E s \in Sessions, res \in Responses : CaptureResponse(s, res)
    \/ \E s \in Sessions, ok \in BOOLEAN, jsQR \in LifeDecoders :
          ImageSettled(s, ok, jsQR)
    \/ Escape
    \/ \E s \in Sessions : BackdropClick(s)
    \/ \E s \in Sessions : OpenClick(s)
    \/ \E s \in Sessions : ToastExpire(s)

Spec == Init /\ [][Next]_vars

\* The selection controller of the first session, with every pointer
\* release position: drags start in a corner, are moved to a corner and are
\* released anywhere.
Anchors == {0, MaxCoord}

SelPoints == 0..MaxCoord

NextSel ==
    \/ (nsess = 0 \/ active) /\ Activate
    \/ \E s \in Sessions, ax \in Anchors, ay \in Anchors : MouseDown(s, ax, ay)
    \/ \E s \in Sessions, cx \in Anchors, cy \in Anchors : MouseMove(s, cx, cy)
    \/ \E s \in Sessions, cx \in SelPoints, cy \in SelPoints : MouseUp(s, cx, cy)
    \/ AnimationFrame
    \/ \E s \in Sessions, res \in Responses : CaptureResponse(s, res)
    \/ \E s \in Sessions, ok \in BOOLEAN, jsQR \in LifeDecoders : ImageSettled(s, ok, jsQR)
    \/ Escape
    \/ \E s \in Sessions : BackdropClick(s)
    \/ \E s \in Sessions : OpenClick(s)
    \/ \E s \in Sessions : ToastExpire(s)

SpecSel == Init /\ [][NextSel]_vars

\* The sessions with the environment doing its part: the browser runs the
\* animation frame callbacks that were requested, the service worker's answer
\* (or lastError) reaches every sendMessage callback, and every image load
\* ends in onload or onerror. What the user does is left free.
SpecLive ==
    /\ Init
    /\ [][Next]_vars
    /\ WF_vars(AnimationFrame)
    /\ \A s \in Sessions : WF_vars(\E res \in Responses : CaptureResponse(s, res))
    /\ \A s \in Sessions :
          WF_vars(\E ok \in BOOLEAN, jsQR \in LifeDecoders : ImageSettled(s, ok, jsQR))

\* The decode cascade alone, for every behaviour of the decoder on the four
\* candidates.
InitDecode ==
    /\ jsQRdefined = TRUE
    /\ active = FALSE
    /\ nsess = 0
    /\ pc = [s \in Sessions |-> "fresh"]
    /\ dragging = [s \in Sessions |-> FALSE]
    /\ startX = [s \in Sessions |-> Undef]
    /\ startY = [s \in Sessions |-> Undef]
    /\ style = [s \in Sessions |-> NoStyle]
    /\ rect = [s \in Sessions |-> NoRect]
    /\ decoded = [s \in Sessions |-> Null]
    /\ openBtn = [s \in Sessions |-> FALSE]
    /\ doc = {}
    /\ listeners = <<>>
    /\ sent = [s \in Sessions |-> 0]
    /\ opened = {}
    /\ cleanups = [s \in Sessions |-> 0]
    /\ pointer = Ev("none", 0, 0, 0)
    /\ dIn \in [Passes -> Outcomes]
    /\ dOut = NotRun
    /\ RestInit

\* attemptDecode(canvas, ctx) runs against the decoder dIn
RunDecode ==
    /\ dOut = NotRun
    /\ dOut' = attemptDecode(dIn)
    /\ UNCHANGED <<sessVars, dIn, restVars>>

NextDecode == RunDecode

SpecDecode == InitDecode /\ [][NextDecode]_vars

\* the page before the content script has run, with the decoder loaded
PageInit ==
    /\ jsQRdefined = TRUE
    /\ active = FALSE
    /\ nsess = 0
    /\ pc = [s \in Sessions |-> "fresh"]
    /\ dragging = [s \in Sessions |-> FALSE]
    /\ startX = [s \in Sessions |-> Undef]
    /\ startY = [s \in Sessions |-> Undef]
    /\ style = [s \in Sessions |-> NoStyle]
    /\ rect = [s \in Sessions |-> NoRect]
    /\ decoded = [s \in Sessions |-> Null]
    /\ openBtn = [s \in Sessions |-> FALSE]
    /\ doc = {}
    /\ listeners = <<>>
    /\ sent = [s \in Sessions |-> 0]
    /\ opened = {}
    /\ cleanups = [s \in Sessions |-> 0]
    /\ pointer = Ev("none", 0, 0, 0)

\* The service worker alone: icon clicks on every kind of tab and capture
\* messages, one click and one message at a time, in a browser whose
\* captureVisibleTab returns a promise and in one where it does not.
InitHost ==
    /\ PageInit
    /\ dIn = [i \in Passes |-> Null]
    /\ dOut = NotRun
    /\ copy = [s \in Sessions |-> NoCopy]
    /\ unhandled = {}
    /\ worker \in {HostIdle(p) : p \in BOOLEAN}
    /\ cIn = NoCrop
    /\ cOut = NoCrop
    /\ PixInit

NextHost ==
    \/ \E url \in TabUrls : IconClick(url)
    \/ \E l \in HostListeners, ok \in BOOLEAN : InjectSettled(l, ok)
    \/ CaptureMessage
    \/ \E l \in HostListeners, ok \in BOOLEAN : CaptureSettled(l, ok)

SpecHost == InitHost /\ [][NextHost]_vars

\* The result menu of one session, for payloads made of a scheme and a
\* short body, with the copy button, the clipboard and the label timer. The
\* copy button is clicked on the menus of the four named payloads: its
\* listener does not look at the payload.
S_Javascript == <<"j", "a", "v", "a", "s", "c", "r", "i", "p", "t", ":">>

S_Data == <<"d", "a", "t", "a", ":">>

Schemes ==
    { <<>>, <<"h", "t", "t", "p", ":", "/", "/">>, <<"H", "t", "T", "p", "S", ":", "/", "/">>, <<"h", "t", "t", "p", "s", ":", "/">>, S_Javascript, S_Data, <<"f", "t", "p", ":", "/", "/">> }

BodyChars == {"e", ".", ":", "1", " "}

Bodies == UNION {[1..n -> BodyChars] : n \in 0..MaxBody}

MenuPayloads == ({sch \o b : sch \in Schemes, b \in Bodies} \ {<<>>}) \cup Payloads

MenuDecoders == {[i \in Passes |-> Null]} \cup {[i \in Passes |-> p] : p \in MenuPayloads}

InitMenu ==
    /\ PageInit
    /\ dIn = [i \in Passes |-> Null]
    /\ dOut = NotRun
    /\ RestInit

NextMenu ==
    \/ nsess = 0 /\ Activate
    \/ \E s \in Sessions : MouseDown(s, 0, 0)
    \/ \E s \in Sessions : MouseUp(s, MinSize, MinSize)
    \/ AnimationFrame
    \/ \E s \in Sessions, res \in Responses : CaptureResponse(s, res)
    \/ \E s \in Sessions, ok \in BOOLEAN, jsQR \in MenuDecoders : ImageSettled(s, ok, jsQR)
    \/ Escape
    \/ \E s \in Sessions : BackdropClick(s)
    \/ \E s \in Sessions : OpenClick(s)
    \/ \E s \in Sessions : ToastExpire(s)
    \/ \E s \in Sessions : decoded[s] \in Payloads /\ CopyClick(s)
    \/ \E s \in Sessions, ok \in BOOLEAN : ClipboardSettled(s, ok)
    \/ \E s \in Sessions : CopyTimer(s)

SpecMenu == InitMenu /\ [][NextMenu]_vars

\* The crop alone, for the rectangles the size check lets through and the
\* pixel ratios of zoom levels from 25 % to 300 %, and a ratio that is not set.
SpecExample == [x |-> 10, y |-> 10, w |-> 33, h |-> 33]

CropRects ==
    [x : 0..MaxCrop, y : 0..MaxCrop,
     w : MinSize..(MinSize + MaxCrop), h : MinSize..(MinSize + MaxCrop)]
        \cup {SpecExample}

Densities ==
    { [n |-> 0, d |-> 1], [n |-> 1, d |-> 4], [n |-> 1, d |-> 2], [n |-> 3, d |-> 4],
      [n |-> 1, d |-> 1], [n |-> 5, d |-> 4], [n |-> 3, d |-> 2], [n |-> 2, d |-> 1],
      [n |-> 3, d |-> 1] }

InitCrop ==
    /\ PageInit
    /\ dIn = [i \in Passes |-> Null]
    /\ dOut = NotRun
    /\ copy = [s \in Sessions |-> NoCopy]
    /\ unhandled = {}
    /\ worker = HostIdle(TRUE)
    /\ cIn \in [rect : CropRects, dpr : Densities]
    /\ cOut = NoCrop
    /\ PixInit

NextCrop == RunCrop

SpecCrop == InitCrop /\ [][NextCrop]_vars

\* toBW alone, on every ImageData of up to MaxSide pixels whose colour bytes
\* lie around the threshold and whose alpha is clear or opaque.
Levels == {0, 128, 129}

Alphas == {0, 255}

Flat(px) == [k \in 1..(4 * Len(px)) |-> px[(k + 3) \div 4][((k - 1) % 4) + 1]]

ImageDatas ==
    {Flat(px) : px \in UNION {[1..n -> (Levels \X Levels \X Levels \X Alphas)] : n \in 1..MaxSide}}

InitBW ==
    /\ PageInit
    /\ dIn = [i \in Passes |-> Null]
    /\ dOut = NotRun
    /\ copy = [s \in Sessions |-> NoCopy]
    /\ unhandled = {}
    /\ worker = HostIdle(TRUE)
    /\ cIn = NoCrop
    /\ cOut = NoCrop
    /\ \E d \in ImageDatas : bw = [orig |-> d, data |-> d, runs |-> 0]
    /\ raster = NoPixels

NextBW == RunBW

SpecBW == InitBW /\ [][NextBW]_vars

\* The pixel buffers of attemptDecode, on every opaque crop canvas of up to
\* MaxSide x MaxSide pixels in two greys (average exactly 128 and just above
\* it), for decoders that succeed in one pass or in none.
Palette == {<<128, 128, 128, 255>>, <<129, 128, 128, 255>>}

Canvases ==
    UNION {{[width |-> w, height |-> h, data |-> Flat(px)] : px \in [1..(w * h) -> Palette]} :
              w \in 1..MaxSide, h \in 1..MaxSide}

PassDecoders == {[i \in Passes |-> IF i = k THEN P_Text ELSE Null] : k \in 1..5}

InitPasses ==
    /\ PageInit
    /\ dIn \in PassDecoders
    /\ dOut = NotRun
    /\ copy = [s \in Sessions |-> NoCopy]
    /\ unhandled = {}
    /\ worker = HostIdle(TRUE)
    /\ cIn = NoCrop
    /\ cOut = NoCrop
    /\ bw = NoPixels
    /\ \E c \in Canvases : raster = [source |-> c, out |-> NoPixels]

NextPasses == RunPasses

SpecPasses == InitPasses /\ [][NextPasses]_vars

(* ------------------------------ properties ---------------------------- *)

\* the kinds of element a session shows; a toast is the transient notice
SessionKinds == {"overlay", "selection", "banner", "loader", "menu", "backdrop"}

Shown(d) == {e \in d : e[1] \in SessionKinds}

ShownBy(s, d) == {e \in Shown(d) : e[2] = s}

\* nothing of any session is shown and the session flag is clear
Idle(g) == ~g.active /\ Shown(g.doc) = {}

\* closure s's processSelection is suspended at one of its awaits
Pending(s) == pc[s] \in {"raf1", "raf2", "capture", "load"}

\* Escape reached closure s's onKeyDown, which unregistered itself
Cancelled(s) == pc[s] # "fresh" /\ pc[s] # "nolib" /\ El("onKeyDown", s) \notin Range(listeners)

\* C1: when the capture response of a session that Escape cancelled while the
\* capture was in flight resolves, nothing of that session is shown, no
\* loader, result menu or backdrop is added to the document, and no result
\* menu (copy / open) is there to use.
C1_LateResponseDiscarded ==
    [][\A s \in Sessions :
          (pc[s] = "capture" /\ Cancelled(s) /\ pc'[s] # "capture")
              => /\ ShownBy(s, doc') = {}
                 /\ Transient(doc') \subseteq Transient(doc)
                 /\ El("menu", s) \notin doc']_vars

\* C2: a pointer-up that finalizes a rectangle with w < 10 or h < 10 sends no
\* capture request and does not enter processSelection; a session that has
\* entered processSelection or sent a capture request has a rectangle with
\* w >= 10 and h >= 10.
C2_SmallRectNoCapture ==
    \A s \in Sessions :
        /\ (/\ pointer.type = "mouseup"
            /\ pointer.s = s
            /\ \/ Abs(pointer.x - startX[s]) < MinSize
               \/ Abs(pointer.y - startY[s]) < MinSize)
               => (pc[s] = "selecting" /\ sent[s] = 0)
        /\ (sent[s] > 0 \/ Pending(s) \/ pc[s] = "returned")
               => (rect[s].w >= MinSize /\ rect[s].h >= MinSize)

\* C2 witness: a drag released 9 wide and at least 10 high was discarded:
\* the session still shows its overlay and has sent nothing
C2_Witness ==
    \E s \in Sessions :
        /\ pointer.type = "mouseup" /\ pointer.s = s
        /\ startX[s] # Undef
        /\ Abs(pointer.x - startX[s]) = MinSize - 1
        /\ Abs(pointer.y - startY[s]) >= MinSize
        /\ ~dragging[s]
        /\ El("overlay", s) \in doc /\ El("selection", s) \notin doc
        /\ pc[s] = "selecting" /\ sent[s] = 0

\* C3: while the session flag is set no step, a second run of the content
\* script included, creates a closure, attaches an overlay or a banner,
\* registers a key listener or changes the flag to anything but clear.
C3_SecondActivationNoop ==
    [][active =>
          /\ nsess' = nsess
          /\ \A s \in Sessions :
                /\ El("overlay", s) \in doc' => El("overlay", s) \in doc
                /\ El("banner", s) \in doc' => El("banner", s) \in doc
                /\ El("onKeyDown", s) \in Range(listeners')
                      => El("onKeyDown", s) \in Range(listeners)
                /\ pc'[s] = "selecting" => pc[s] = "selecting"]_vars

\* C3 witness: a session is active, showing its overlay, and the page could
\* still run the content script again
C3_Witness ==
    /\ active
    /\ nsess >= 1 /\ nsess < MaxSessions
    /\ El("overlay", nsess) \in doc

\* C4: a new session starts only when no earlier session has a pending
\* capture, image-load or decode continuation.
C4_OneSessionInFlight ==
    [][nsess' # nsess => \A s \in Sessions : ~Pending(s)]_vars

\* C5: from every state that is not Idle an Escape keypress leads to Idle,
\* and a click on a result menu's backdrop removes everything that session
\* shows and clears the flag.
C5_CancelEdge ==
    /\ ~Idle(Page) => Idle(Dispatch(listeners, Page))
    /\ \A s \in Sessions :
          El("backdrop", s) \in doc
              => LET g == dismissMenu(s, Page)
                 IN  ~g.active /\ ShownBy(s, g.doc) = {}

\* C6: no session runs its teardown (cleanup) more than once.
C6_TeardownOnce == \A s \in Sessions : cleanups[s] <= 1

\* the passes whose candidate the decoder reads
Hits(jsQR) == {i \in Passes : jsQR[i] # Null /\ jsQR[i] # Empty}

\* the passes 1..n in order
UpTo(n) == [i \in 1..n |-> i]

\* C7: when only pass 4 decodes, the decoder is called for passes 1, 2, 3 and
\* 4 in that order and attemptDecode returns exactly the pass-4 payload.
C7_CascadeOrder ==
    (dOut # NotRun /\ Hits(dIn) = {4})
        => (dOut.calls = <<1, 2, 3, 4>> /\ dOut.ret = dIn[4])

\* C7 witness: the cascade has run on a raster only pass 4 decodes
C7_Witness ==
    /\ dOut.calls # <<>>
    /\ dIn[1] = Null /\ dIn[2] = Empty /\ dIn[3] = Null /\ dIn[4] = P_Domain
    /\ dOut.ret = P_Domain

\* C8: attemptDecode returns the payload of the lowest pass that yields a
\* non-empty string and calls the decoder for no later pass; it returns null
\* exactly when no pass yields a non-empty string.
C8_FirstNonEmpty ==
    dOut # NotRun =>
        /\ dOut.ret = Null <=> Hits(dIn) = {}
        /\ Hits(dIn) = {} => dOut.calls = UpTo(4)
        /\ \A m \in Hits(dIn) :
              (\A i \in Hits(dIn) : m <= i)
                  => (dOut.ret = dIn[m] /\ dOut.calls = UpTo(m))

\* C8 witness: pass 1 gave an empty string, pass 2 a payload, and a later
\* pass would have given another payload
C8_Witness ==
    /\ dOut # NotRun
    /\ dIn[1] = Empty /\ dIn[2] = P_Text /\ dIn[3] = P_Domain
    /\ dOut.ret = P_Text /\ dOut.calls = <<1, 2>>

\* a session's overlay, selection rectangle and banner
OwnSelectionUi(s) == {El("overlay", s), El("selection", s), El("banner", s)}

\* C9: in every session processSelection is entered from the selection state
\* with the overlay, selection rectangle and banner removed, the first frame
\* follows, then the second, the capture request is sent exactly at the second
\* frame with that UI still removed, and the loader is never in the document
\* unless the session's capture request has been sent.
C9_CaptureOrdering ==
    [][\A s \in Sessions :
          /\ (pc'[s] = "raf1" /\ pc[s] # "raf1")
                => (pc[s] = "selecting" /\ OwnSelectionUi(s) \cap doc' = {} /\ sent'[s] = 0)
          /\ (pc'[s] = "raf2" /\ pc[s] # "raf2") => pc[s] = "raf1"
          /\ (pc'[s] = "capture" /\ pc[s] # "capture") => pc[s] = "raf2"
          /\ sent'[s] # sent[s]
                => /\ pc[s] = "raf2" /\ pc'[s] = "capture"
                   /\ sent[s] = 0 /\ sent'[s] = 1
                   /\ OwnSelectionUi(s) \cap doc' = {}
          /\ El("loader", s) \in doc' => (sent[s] = 1 /\ pc'[s] = "load")]_vars

\* C9 witness: a session shows its loader after its capture request
C9_Witness ==
    \E s \in Sessions : El("loader", s) \in doc /\ sent[s] = 1 /\ pc[s] = "load"

\* C10: at the moment a session sends the capture request nothing this system
\* created is attached to the document, whatever earlier sessions left; stated
\* for the sends that do not race with a cancelled session's continuation.
C10_CleanCapture ==
    [][\A s \in Sessions :
          (sent'[s] # sent[s] /\ \A r \in Sessions : Pending(r) => ~Cancelled(r))
              => doc' = {}]_vars

\* C11: a session sends at most one capture request, and none while one is
\* unanswered: a session that waits for the response has sent exactly one, and
\* once it has sent one it is never again where a request is sent from.
C11_OneCapturePerSession ==
    \A s \in Sessions :
        /\ sent[s] <= 1
        /\ pc[s] = "capture" => sent[s] = 1
        /\ sent[s] = 1 => pc[s] \in {"capture", "load", "returned"}

\* C11 witness: a session has sent its request and waits for the response
C11_Witness ==
    \E s \in Sessions : sent[s] = 1 /\ pc[s] = "capture" /\ El("overlay", s) \notin doc

\* the capture requests listener l made without a window id
Retries(l) == {i \in 1..Len(worker.req) : worker.req[i] = <<l, "unscoped">>}

\* C12: for a capture message, a listener whose request scoped to the
\* sender's window failed has made exactly one further, unscoped request; it
\* makes none when the scoped request did not fail; and it answers {error}
\* only after that unscoped request failed too.
C12_RetryOnce ==
    \A l \in HostListeners :
        /\ <<l, "scoped">> \in worker.failed => Cardinality(Retries(l)) = 1
        /\ <<l, "scoped">> \notin worker.failed => Retries(l) = {}
        /\ <<l, "error">> \in Range(worker.resp) => <<l, "unscoped">> \in worker.failed

\* C13: whenever a session's pipeline ends without a payload (the host
\* answered {error}, lastError was set, the response was empty, the image did
\* not load, or no pass decoded), its notice is in the document, no loader,
\* result menu or backdrop is, nothing of the session is shown, its Escape
\* listener is unregistered and the session flag is clear.
C13_ErrorEdge ==
    [][\A s \in Sessions :
          (pc[s] \in {"capture", "load"} /\ pc'[s] = "returned" /\ decoded'[s] = Null)
              => /\ El("toast", s) \in doc'
                 /\ Transient(doc') = {}
                 /\ ShownBy(s, doc') = {}
                 /\ El("onKeyDown", s) \notin Range(listeners')
                 /\ El("escHandler", s) \notin Range(listeners')
                 /\ ~active']_vars

\* C13 witness: a session whose request was sent ended without a payload and
\* its notice is up
C13_Witness ==
    \E s \in Sessions :
        /\ pc[s] = "returned" /\ decoded[s] = Null /\ sent[s] = 1
        /\ El("toast", s) \in doc /\ cleanups[s] = 1 /\ ~active

\* C14: on a page where the decoder is not loaded, no overlay, banner or other
\* session element is ever attached, no key listener is registered, no closure
\* leaves its start, the flag is clear after every step, and every run of the
\* content script goes past the guard and shows its notice.
C14_AssetUnavailable ==
    [][~jsQRdefined =>
          /\ Shown(doc') = {}
          /\ listeners' = <<>>
          /\ ~active'
          /\ \A s \in Sessions : pc'[s] \in {"fresh", "nolib"} /\ sent'[s] = 0
          /\ nsess' # nsess => (nsess' = nsess + 1 /\ El("toast", nsess') \in doc')]_vars

\* C14 witness: without the decoder the content script ran twice; the second
\* run was not blocked and its notice is up
C14_Witness ==
    /\ ~jsQRdefined
    /\ nsess = 2 /\ pc[1] = "nolib" /\ pc[2] = "nolib"
    /\ El("toast", 2) \in doc
    /\ ~active /\ listeners = <<>>

\* the pages the denylist is about
RestrictedPage(url) ==
    \/ StartsWith(url, S_Chrome)
    \/ StartsWith(url, S_Extension)
    \/ StartsWith(url, S_Edge)
    \/ StartsWith(url, S_About)

\* C15: for an icon click on a tab whose address begins with chrome://,
\* chrome-extension://, edge:// or about:, the worker hands neither the style
\* rules, nor the decoder library, nor the content script to the tab.
C15_NoInjectionOnRestricted ==
    RestrictedPage(worker.url) => worker.inject = {}

\* url-like: the payload matches ^https?:// whatever the case, or "https://"
\* followed by the payload parses as a URL
UrlLike(p) == MatchesHttp(p) \/ isValidUrl(HttpsPrefix \o p)

\* what the open action sends for a url-like payload
ExpectedUrl(p) == IF MatchesHttp(p) THEN p ELSE HttpsPrefix \o p

\* C16: a result menu that is shown has the open button exactly when the
\* payload is url-like; every openTab message carries the payload itself
\* when it matches ^https?://, "https://" followed by the payload otherwise,
\* and none is sent for a payload that is not url-like. "HTTPS://e.co/x" and
\* "e.co" are url-like, "Hi u" is not.
C16_UrlClassification ==
    /\ \A s \in Sessions :
          El("menu", s) \in doc => (openBtn[s] <=> UrlLike(decoded[s]))
    /\ opened \subseteq {ExpectedUrl(decoded[s]) :
                            s \in {r \in Sessions : decoded[r] # Null /\ UrlLike(decoded[r])}}
    /\ UrlLike(P_Verbatim) /\ ExpectedUrl(P_Verbatim) = P_Verbatim
    /\ UrlLike(P_Domain) /\ ~MatchesHttp(P_Domain)
    /\ ~UrlLike(P_Text)

\* C16 witness: the menu of a bare-domain payload was used to open it
C16_Witness ==
    \E s \in Sessions :
        /\ decoded[s] = P_Domain
        /\ opened = {HttpsPrefix \o P_Domain}
        /\ El("menu", s) \notin doc

\* the string begins with http:// or https://, in any case
BeginsHttp(u) ==
    /\ Len(u) >= 7
    /\ LowerSeq(SubSeq(u, 1, 4)) = <<"h", "t", "t", "p">>
    /\ \/ SubSeq(u, 5, 7) = <<":", "/", "/">>
       \/ Len(u) >= 8 /\ Lower(u[5]) = "s" /\ SubSeq(u, 6, 8) = <<":", "/", "/">>

\* C17: every openTab message carries a url that begins with http:// or
\* https://, and a payload that does not begin so is never sent as it is.
C17_HttpOnly ==
    /\ \A u \in opened : BeginsHttp(u)
    /\ \A s \in Sessions :
          (decoded[s] # Null /\ ~BeginsHttp(decoded[s])) => decoded[s] \notin opened

\* C17 witness: a payload with the javascript: scheme was url-like after the
\* prefix, and what was sent is the prefixed string
C17_Witness ==
    \E s \in Sessions :
        /\ decoded[s] # Null
        /\ StartsWith(decoded[s], S_Javascript)
        /\ opened = {HttpsPrefix \o decoded[s]}

\* C18: a step of the copy button (a click, the clipboard write succeeding or
\* failing, the label timer) changes nothing but the button: the document, the
\* key listeners, the flag and every session's position stay as they are; a
\* menu that was clicked still has its backdrop and its Escape listener, the
\* flag is set unless the session was torn down before, and both a backdrop
\* click and an Escape keypress still remove the menu and clear the flag.
C18_CopyNoTransition ==
    [][copy' # copy =>
          /\ UNCHANGED <<doc, listeners, active, nsess, pc, decoded, sent, opened, cleanups>>
          /\ \A s \in Sessions :
                (El("menu", s) \in doc /\ copy'[s].clicks > 0)
                    => /\ El("menu", s) \in doc' /\ El("backdrop", s) \in doc'
                       /\ El("escHandler", s) \in Range(listeners')
                       /\ cleanups[s] = 0 => active'
                       /\ Idle(dismissMenu(s, Page))'
                       /\ Idle(Dispatch(listeners, Page))']_vars

\* C18 witness: the copy button was clicked as often as the model allows, one
\* write failed and one succeeded, and the menu is still shown with the flag set
C18_Witness ==
    \E s \in Sessions :
        /\ copy[s].clicks = MaxCopies /\ copy[s].writes = 0
        /\ copy[s].label = "Copied"
        /\ <<s, "writeText">> \in unhandled
        /\ El("menu", s) \in doc /\ El("backdrop", s) \in doc /\ active

\* C19: no promise rejection and no exception of the pipeline or of the
\* result menu's actions is left without a handler.
C19_NothingUncaught == unhandled = {}

\* r is the integer nearest to v * k.n / k.d, the upper one of two equally near
Nearest(r, v, k) ==
    /\ r \in Nat
    /\ -k.d < 2 * (r * k.d - v * k.n)
    /\ 2 * (r * k.d - v * k.n) <= k.d

\* C20: the crop's width, height and source offset are the rectangle's w, h,
\* x and y, each multiplied by the pixel ratio and rounded on its own to the
\* nearest integer; the output is at least 1 x 1; and the rectangle
\* (10, 10, 33, 33) at ratio 2 gives 66 x 66 from (20, 20).
C20_CropGeometry ==
    cOut # NoCrop =>
        LET k == IF cIn.dpr.n = 0 THEN [n |-> 1, d |-> 1] ELSE cIn.dpr
        IN  /\ Nearest(cOut.width, cIn.rect.w, k)
            /\ Nearest(cOut.height, cIn.rect.h, k)
            /\ Nearest(cOut.sx, cIn.rect.x, k)
            /\ Nearest(cOut.sy, cIn.rect.y, k)
            /\ cOut.width >= 1 /\ cOut.height >= 1
            /\ (cIn.rect = SpecExample /\ cIn.dpr = [n |-> 2, d |-> 1])
                  => cOut = [width |-> 66, height |-> 66, sx |-> 20, sy |-> 20]

\* C20 witness: at ratio 1.5 a rectangle at x = 1 of width 11 was cropped:
\* the offset 1.5 went up to 2 and the width 16.5 up to 17, though the edges
\* round to 2 and 18
C20_Witness ==
    /\ cOut # NoCrop
    /\ cIn.dpr = [n |-> 3, d |-> 2]
    /\ cIn.rect.x = 1 /\ cIn.rect.w = 11
    /\ cOut.sx = 2 /\ cOut.width = 17

\* C21: whenever an overlay, a banner, a loader or a result menu of a session
\* is attached to the document, the session flag is set.
C21_FlagCoversUi ==
    \A s \in Sessions :
        (\E kind \in {"overlay", "banner", "loader", "menu"} : El(kind, s) \in doc)
            => active

\* the mouseup listener of closure s ends a drag in this step
Release(s) == dragging[s] /\ ~dragging'[s]

\* C22: a release that ends a drag less than 10 wide or less than 10 high
\* removes the selection rectangle and nothing else: overlay and banner stay,
\* the flag, the key listeners and every session's position are unchanged and
\* nothing is sent, so the session is still selecting with its overlay
\* listening; and every release of a drag of at least 10 x 10, whatever came
\* before it, enters processSelection.
C22_DiscardedDrag ==
    [][\A s \in Sessions :
          /\ (/\ Release(s)
              /\ \/ Abs(pointer'.x - startX[s]) < MinSize
                 \/ Abs(pointer'.y - startY[s]) < MinSize)
                => /\ doc' = doc \ {El("selection", s)}
                   /\ El("overlay", s) \in doc' /\ El("banner", s) \in doc'
                   /\ pc'[s] = "selecting"
                   /\ El("onKeyDown", s) \in Range(listeners')
                   /\ UNCHANGED <<active, listeners, pc, nsess, sent, rect, decoded,
                                  opened, cleanups, startX, startY>>
          /\ (/\ Release(s)
              /\ Abs(pointer'.x - startX[s]) >= MinSize
              /\ Abs(pointer'.y - startY[s]) >= MinSize)
                => (pc[s] = "selecting" /\ pc'[s] = "raf1")]_vars

\* C22 witness: a drag 9 high was just discarded: the session shows overlay
\* and banner without a selection rectangle, the flag is set, its Escape
\* listener is registered and nothing was sent
C22_Witness ==
    \E s \in Sessions :
        /\ pointer.type = "mouseup" /\ pointer.s = s
        /\ startY[s] # Undef
        /\ Abs(pointer.y - startY[s]) = MinSize - 1
        /\ Abs(pointer.x - startX[s]) >= MinSize
        /\ ~dragging[s] /\ pc[s] = "selecting" /\ sent[s] = 0
        /\ El("overlay", s) \in doc /\ El("banner", s) \in doc
        /\ El("selection", s) \notin doc
        /\ active /\ El("onKeyDown", s) \in Range(listeners)

\* the box style or rect (a, b) spans the coordinates p and q: a is the
\* smaller, b the distance
Spans(a, b, p, q) ==
    /\ a <= p /\ a <= q /\ a \in {p, q}
    /\ b >= 0 /\ b \in {p - q, q - p}

\* C23: after every move of a drag the selection rectangle, and after every
\* release that enters processSelection the rect, has its corner at the
\* smaller x and the smaller y of the anchor and the pointer and the absolute
\* differences as its size, in every drag direction; a mousedown gives the
\* empty rectangle at the anchor; and width, height, w and h are never
\* negative.
C23_RectNormalised ==
    [][\A s \in Sessions :
          /\ (pointer' # pointer /\ pointer'.type = "mousemove" /\ pointer'.s = s /\ dragging[s])
                => /\ Spans(style'[s].left, style'[s].width, startX[s], pointer'.x)
                   /\ Spans(style'[s].top, style'[s].height, startY[s], pointer'.y)
          /\ (pointer' # pointer /\ pointer'.type = "mousedown" /\ pointer'.s = s)
                => style'[s] = [left |-> pointer'.x, top |-> pointer'.y,
                                width |-> 0, height |-> 0]
          /\ (Release(s) /\ pc'[s] = "raf1")
                => /\ Spans(rect'[s].x, rect'[s].w, startX[s], pointer'.x)
                   /\ Spans(rect'[s].y, rect'[s].h, startY[s], pointer'.y)
          /\ style'[s] # NoStyle => (style'[s].width >= 0 /\ style'[s].height >= 0)
          /\ rect'[s] # NoRect => (rect'[s].w >= 0 /\ rect'[s].h >= 0)]_vars

\* C23 witness: a drag from the top right corner to the bottom left one was
\* released: the rect starts at the smaller coordinates
C23_Witness ==
    \E s \in Sessions :
        /\ pc[s] = "raf1"
        /\ startX[s] = MaxCoord /\ startY[s] = 0
        /\ pointer = Ev("mouseup", s, 0, MaxCoord)
        /\ style[s] = [left |-> 0, top |-> 0, width |-> MaxCoord, height |-> MaxCoord]
        /\ rect[s] = [x |-> 0, y |-> 0, w |-> MaxCoord, h |-> MaxCoord]

\* C24: once toBW has run, every pixel whose R + G + B was above 384 has
\* R = G = B = 255 and every other pixel, one of average exactly 128
\* included, has R = G = B = 0; the alpha bytes and the length are as they
\* were; and a second call leaves the result of the first.
C24_Threshold ==
    (bw # NoPixels /\ bw.runs >= 1) =>
        /\ Len(bw.data) = Len(bw.orig)
        /\ \A p \in 0..((Len(bw.orig) \div 4) - 1) :
              LET white == bw.orig[4 * p + 1] + bw.orig[4 * p + 2] + bw.orig[4 * p + 3] > 384
              IN  /\ \A c \in 1..3 : bw.data[4 * p + c] = (IF white THEN 255 ELSE 0)
                  /\ bw.data[4 * p + 4] = bw.orig[4 * p + 4]

\* C24 witness: toBW ran twice on a clear pixel of average 128 followed by an
\* opaque pixel of sum 385: the first is black, the second white
C24_Witness ==
    /\ bw # NoPixels
    /\ bw.runs = 2
    /\ bw.orig = <<128, 128, 128, 0, 129, 128, 128, 255>>
    /\ bw.data = <<0, 0, 0, 0, 255, 255, 255, 255>>

\* byte c of pixel p of the bytes d, binarized when bin is set
PixelByte(d, p, c, bin) ==
    IF bin /\ c < 4
    THEN (IF d[4 * p + 1] + d[4 * p + 2] + d[4 * p + 3] > 384 THEN 255 ELSE 0)
    ELSE d[4 * p + c]

\* the jsQR arguments call are the canvas src with every pixel made a block
\* of k x k pixels, binarized when bin is set
Candidate(src, call, k, bin) ==
    /\ call.width = k * src.width
    /\ call.height = k * src.height
    /\ Len(call.data) = 4 * call.width * call.height
    /\ \A x \in 0..(src.width - 1), y \in 0..(src.height - 1) :
          \A dx \in 0..(k - 1), dy \in 0..(k - 1), c \in 1..4 :
              call.data[4 * ((y * k + dy) * call.width + (x * k + dx)) + c]
                  = PixelByte(src.data, y * src.width + x, c, bin)

\* C25: once attemptDecode has returned, the crop canvas and the ImageData of
\* pass 1 hold the bytes of the crop, and every pass that ran handed jsQR the
\* candidate made from the unmodified crop: pass 1 the crop, pass 2 the crop
\* upscaled 2x, pass 3 the crop binarized, pass 4 the crop upscaled 3x and
\* binarized.
C25_IndependentCandidates ==
    (raster # NoPixels /\ raster.out # NoPixels) =>
        LET src == raster.source
            out == raster.out
        IN  /\ out.canvas = src
            /\ out.imageData = src.data
            /\ Len(out.calls) = Len(dOut.calls)
            /\ \A i \in 1..Len(out.calls) :
                  Candidate(src, out.calls[i],
                            IF i = 2 THEN 2 ELSE IF i = 4 THEN 3 ELSE 1,
                            i >= 3)

\* C25 witness: all four passes ran on a crop of a pixel of average 128 beside
\* one just above: pass 3 got black and white, the ImageData of pass 1 still
\* holds the two greys
C25_Witness ==
    /\ raster # NoPixels
    /\ raster.out # NoPixels
    /\ raster.source = [width |-> 2, height |-> 1,
                        data |-> <<128, 128, 128, 255, 129, 128, 128, 255>>]
    /\ Len(raster.out.calls) = 4
    /\ raster.out.calls[3].data = <<0, 0, 0, 255, 255, 255, 255, 255>>
    /\ raster.out.imageData = <<128, 128, 128, 255, 129, 128, 128, 255>>

\* closure s's processSelection has returned leaving its result menu up, or
\* leaving nothing of s with the session flag clear
Settled(s) ==
    /\ pc[s] = "returned"
    /\ \/ El("menu", s) \in doc
       \/ (~active /\ ShownBy(s, doc) = {})

\* C26: a session whose valid selection was released (processSelection is at
\* one of its awaits) eventually has processSelection returned with its
\* result menu shown or with nothing of it shown and the flag clear; and every
\* step that takes a session's result menu away (Escape, a click outside,
\* Open) leaves nothing of that session shown and the flag clear, so that the
\* next run of the content script is not refused.
C26_SessionTerminates ==
    /\ \A s \in Sessions : Pending(s) ~> Settled(s)
    /\ [][\A s \in Sessions :
             (El("menu", s) \in doc /\ El("menu", s) \notin doc')
                 => (~active' /\ ShownBy(s, doc') = {})]_vars

\* C26 witness: a session decoded a payload, showed its menu and was
\* dismissed: nothing is shown, the flag is clear and a closure is left to
\* activate
C26_Witness ==
    \E s \in Sessions :
        /\ pc[s] = "returned" /\ decoded[s] # Null
        /\ cleanups[s] >= 1
        /\ Idle(Page)
        /\ nsess < MaxSessions

\* the sendResponse calls handler l made for the capture message at hand
Answers(l) == SelectSeq(worker.resp, LAMBDA r : r[1] = l)

====
